---- MODULE Spec2Model ----
(***************************************************************************)
(* Model of test_postgres_container (src/main.py): one linear test body    *)
(* inside a `with PostgresContainer(...)` block, run MaxRuns times in      *)
(* succession by the test runner.  Every call into the container helper or *)
(* the database driver either returns or raises; what it returns is chosen *)
(* by the environment.                                                     *)
(***************************************************************************)
EXTENDS Integers, Sequences, FiniteSets, TLC

\* ---- bounds ------------------------------------------------------------
MaxRuns == 2
MaxInt == 2

\* ---- values a fetched column can hold ----------------------------------
Val(t, n) == [t |-> t, n |-> n]

IntOne == Val("int", 1)

\* int 0..MaxInt, True, 1.0, the string "1", None (SQL NULL)
Values ==
  {Val("int", i) : i \in 0..MaxInt}
    \cup {Val("bool", 1), Val("float", 1), Val("str", 1), Val("NoneType", 0)}

Numeric == {"int", "bool", "float"}

\* a plausible slip: comparing the printed digits, so that "1" equals 1
PyEqByDigits(a, b) == a.n = b.n /\ a.t # "NoneType" /\ b.t # "NoneType"

\* Python's == between two scalars: numbers compare by value across
\* int/bool/float, everything else needs the same type
PyEq(a, b) ==
  IF a.t \in Numeric /\ b.t \in Numeric
    THEN a.n = b.n
    ELSE a.t = b.t /\ a.n = b.n

\* result of cur.fetchone(): None (no row) or a tuple of columns
NoRow == [some |-> FALSE, cols |-> <<>>]
Row(cols) == [some |-> TRUE, cols |-> cols]
Rows == {NoRow, Row(<<>>)} \cup {Row(<<v>>) : v \in Values}

VARIABLES
  run,        \* number of the current invocation of the test
  pc,         \* next statement of the test body
  container,  \* "none" | "running" | "stopped"
  portExposed,\* whether the started container maps port 5432
  conn,       \* "none" | "open" | "closed"
  cur,        \* "none" | "open" | "closed"
  executed,   \* SQL text passed to cur.execute, "" before
  row,        \* what cur.fetchone() returned
  error,      \* exception in flight, "none" if none
  outcome,    \* "running" | "pass" | "fail"
  trace,      \* statements of this run in the order they were entered
  resp,       \* what the environment answered to each call of this run
  finished    \* one record per earlier run

vars ==
  <<run, pc, container, portExposed, conn, cur, executed, row, error,
    outcome, trace, resp, finished>>

\* ---- control flow ------------------------------------------------------
\* statements of the body in program order; "stop" is the with-block's exit
Flow ==
  <<"start", "host", "port", "connect", "cursor", "execute", "fetchone",
    "assert", "cur_close", "conn_close", "stop">>

IndexIn(seq, s) == CHOOSE i \in 1..Len(seq) : seq[i] = s

\* a plausible slip: the connection is closed before the cursor
NextPcConnFirst(p) ==
  CASE p = "assert" -> "conn_close"
    [] p = "conn_close" -> "cur_close"
    [] p = "cur_close" -> "stop"
    [] p = "stop" -> "done"
    [] OTHER -> Flow[IndexIn(Flow, p) + 1]

\* a plausible slip: the query is issued before the connection exists
NextPcQueryFirst(p) ==
  CASE p = "port" -> "execute"
    [] p = "execute" -> "connect"
    [] p = "connect" -> "cursor"
    [] p = "cursor" -> "fetchone"
    [] p = "stop" -> "done"
    [] OTHER -> Flow[IndexIn(Flow, p) + 1]

\* the statement that follows p when p completes normally
NextPc(p) ==
  IF p = "stop" THEN "done" ELSE Flow[IndexIn(Flow, p) + 1]

\* a call returned: fall through to the next statement
Return ==
  /\ pc' = NextPc(pc)
  /\ UNCHANGED <<error, outcome>>

\* slip: no with-block, an exception leaves the function at once
RaiseNoWith(kind) ==
  /\ pc' = "done"
  /\ error' = kind
  /\ outcome' = "fail"

\* slip: every exception is reported as a failed assertion
RaiseAsAssertion(kind) ==
  /\ pc' = "stop"
  /\ error' = "AssertionError"
  /\ UNCHANGED outcome

\* slip: the exception is caught and the body goes on
RaiseSwallowed(kind) ==
  /\ pc' = NextPc(pc)
  /\ error' = kind
  /\ UNCHANGED outcome

\* slip: the failing call blocks instead of raising
RaiseHang(kind) ==
  /\ pc' = "hung"
  /\ error' = kind
  /\ UNCHANGED outcome

\* an exception raised inside the with-body: the rest of the body is
\* skipped and control passes to the with-block's exit
Raise(kind) ==
  /\ pc' = "stop"
  /\ error' = kind
  /\ UNCHANGED outcome

\* what the environment answered to one call
Answer(kind, r) == [kind |-> kind, row |-> r]

Enter(step, kind, r) ==
  /\ trace' = Append(trace, step)
  /\ resp' = Append(resp, Answer(kind, r))

\* ---- initial state -----------------------------------------------------
Init ==
  /\ run = 1
  /\ pc = "start"
  /\ container = "none"
  /\ portExposed = FALSE
  /\ conn = "none"
  /\ cur = "none"
  /\ executed = ""
  /\ row = NoRow
  /\ error = "none"
  /\ outcome = "running"
  /\ trace = <<>>
  /\ resp = <<>>
  /\ finished = <<>>

\* ---- statements --------------------------------------------------------
\* line 6: PostgresContainer("postgres:15").__enter__()
StartContainer ==
  /\ pc = "start"
  /\ \/ \E exposed \in BOOLEAN :
          /\ container' = "running"
          /\ portExposed' = exposed
          /\ Enter("start", IF exposed THEN "ok" ELSE "ok_no_port", NoRow)
          /\ Return
     \/ /\ Enter("start", "raise", NoRow)
        /\ pc' = "done"
        /\ error' = "ContainerStartError"
        /\ outcome' = "fail"
        /\ UNCHANGED <<container, portExposed>>
  /\ UNCHANGED <<run, conn, cur, executed, row, finished>>

\* line 8: postgres.get_container_host_ip()
GetHost ==
  /\ pc = "host"
  /\ Enter("host", "ok", NoRow)
  /\ Return
  /\ UNCHANGED <<run, container, portExposed, conn, cur, executed, row, finished>>

\* line 9: postgres.get_exposed_port(5432)
GetExposedPort ==
  /\ pc = "port"
  /\ IF portExposed
       THEN Enter("port", "ok", NoRow) /\ Return
       ELSE Enter("port", "raise", NoRow) /\ Raise("PortLookupError")
  /\ UNCHANGED <<run, container, portExposed, conn, cur, executed, row, finished>>

\* lines 7-13: psycopg2.connect(...)
Connect ==
  /\ pc = "connect"
  /\ \/ /\ conn' = "open"
        /\ Enter("connect", "ok", NoRow)
        /\ Return
     \/ /\ Enter("connect", "raise", NoRow)
        /\ Raise("ConnectionError")
        /\ UNCHANGED conn
  /\ UNCHANGED <<run, container, portExposed, cur, executed, row, finished>>

\* line 15: conn.cursor()
Cursor ==
  /\ pc = "cursor"
  /\ \/ /\ cur' = "open"
        /\ Enter("cursor", "ok", NoRow)
        /\ Return
     \/ /\ Enter("cursor", "raise", NoRow)
        /\ Raise("DriverError")
        /\ UNCHANGED cur
  /\ UNCHANGED <<run, container, portExposed, conn, executed, row, finished>>

\* line 16: cur.execute("SELECT 1;")
Execute ==
  /\ pc = "execute"
  /\ \/ /\ executed' = "SELECT 1;"
        /\ Enter("execute", "ok", NoRow)
        /\ Return
     \/ /\ Enter("execute", "raise", NoRow)
        /\ Raise("DriverError")
        /\ UNCHANGED executed
  /\ UNCHANGED <<run, container, portExposed, conn, cur, row, finished>>

\* line 17, the call: cur.fetchone()
FetchOne ==
  /\ pc = "fetchone"
  /\ \/ \E r \in Rows :
          /\ row' = r
          /\ Enter("fetchone", "row", r)
          /\ Return
     \/ /\ Enter("fetchone", "raise", NoRow)
        /\ Raise("DriverError")
        /\ UNCHANGED row
  /\ UNCHANGED <<run, container, portExposed, conn, cur, executed, finished>>

\* line 17, the rest: assert <row>[0] == 1
AssertOne ==
  /\ pc = "assert"
  /\ Enter("assert", "ok", NoRow)
  /\ IF ~row.some THEN Raise("TypeError")
     ELSE IF Len(row.cols) = 0 THEN Raise("IndexError")
     ELSE IF PyEq(row.cols[1], IntOne) THEN Return
     ELSE Raise("AssertionError")
  /\ UNCHANGED <<run, container, portExposed, conn, cur, executed, row, finished>>

\* line 19: cur.close()
CurClose ==
  /\ pc = "cur_close"
  /\ \/ /\ cur' = "closed"
        /\ Enter("cur_close", "ok", NoRow)
        /\ Return
     \/ /\ Enter("cur_close", "raise", NoRow)
        /\ Raise("DriverError")
        /\ UNCHANGED cur
  /\ UNCHANGED <<run, container, portExposed, conn, executed, row, finished>>

\* line 20: conn.close()
ConnClose ==
  /\ pc = "conn_close"
  /\ \/ /\ conn' = "closed"
        /\ Enter("conn_close", "ok", NoRow)
        /\ Return
     \/ /\ Enter("conn_close", "raise", NoRow)
        /\ Raise("DriverError")
        /\ UNCHANGED conn
  /\ UNCHANGED <<run, container, portExposed, cur, executed, row, finished>>

\* line 6, leaving the block: PostgresContainer.__exit__ stops the
\* container and lets an exception in flight propagate
StopContainer ==
  /\ pc = "stop"
  /\ container' = "stopped"
  /\ Enter("stop", "ok", NoRow)
  /\ pc' = NextPc(pc)
  /\ outcome' = IF error = "none" THEN "pass" ELSE "fail"
  /\ UNCHANGED <<run, portExposed, conn, cur, executed, row, error, finished>>

\* line 5: the runner invokes the test again; the locals of the previous
\* invocation are gone, what it left behind is kept for inspection
NextRun ==
  /\ pc = "done"
  /\ run < MaxRuns
  /\ finished' =
       Append(finished,
              [outcome |-> outcome, error |-> error, resp |-> resp,
               conn |-> conn, container |-> container])
  /\ run' = run + 1
  /\ pc' = "start"
  /\ container' = "none"
  /\ portExposed' = FALSE
  /\ conn' = "none"
  /\ cur' = "none"
  /\ executed' = ""
  /\ row' = NoRow
  /\ error' = "none"
  /\ outcome' = "running"
  /\ trace' = <<>>
  /\ resp' = <<>>

Next ==
  \/ StartContainer
  \/ GetHost
  \/ GetExposedPort
  \/ Connect
  \/ Cursor
  \/ Execute
  \/ FetchOne
  \/ AssertOne
  \/ CurClose
  \/ ConnClose
  \/ StopContainer
  \/ NextRun

Spec == Init /\ [][Next]_vars

\* every statement is a synchronous call that returns or raises
FairSpec == Spec /\ WF_vars(Next)

\* ---- properties --------------------------------------------------------
Taxonomy == {"ContainerStartError", "ConnectionError", "AssertionError"}

\* the last statement of the body this run entered (the failing one when the
\* run failed), i.e. the last one entered before the
\* with-block's exit
LastBodyStep ==
  LET body == SelectSeq(trace, LAMBDA s : s # "stop")
  IN body[Len(body)]

\* C1: whenever a run has ended and its container had been started, the
\* container has been stopped, whatever made the run end; the same holds of
\* every earlier run.
C1_ContainerReleased ==
  /\ (pc = "done" /\ container # "none") => container = "stopped"
  /\ \A i \in DOMAIN finished : finished[i].container # "running"

\* the run ended because execute raised, and the container is stopped
C1_Witness ==
  /\ pc = "done"
  /\ LastBodyStep = "execute"
  /\ error = "DriverError"
  /\ container = "stopped"

\* C2: the connection is never open while the container it was built from
\* is already stopped.
C2_ConnNeverOutlivesContainer ==
  ~(conn = "open" /\ container = "stopped")

\* C3: a run that created a connection has closed it by the time it ends,
\* on passing and on failing paths alike.
C3_ConnClosedAtEnd ==
  (pc = "done" /\ conn # "none") => conn = "closed"

\* C4: a passing run released cursor, connection and container in that
\* order: its last three statements are cur.close(), conn.close() and the
\* stop of the container, and all three resources are released.
C4_ReleaseOrder ==
  outcome = "pass" =>
    /\ Len(trace) >= 3
    /\ SubSeq(trace, Len(trace) - 2, Len(trace))
         = <<"cur_close", "conn_close", "stop">>
    /\ cur = "closed"
    /\ conn = "closed"
    /\ container = "stopped"

\* a run passed on the row (1,)
C4_Witness ==
  /\ outcome = "pass"
  /\ row = Row(<<IntOne>>)
  /\ Len(trace) = Len(Flow)

\* the values that compare equal to the integer 1 (1, True, 1.0)
EqualsIntegerOne(v) == v.t \in {"int", "bool", "float"} /\ v.n = 1

\* C5: a run passes only if the container started, the connection was
\* made, "SELECT 1;" was executed and column 0 of the fetched row equals
\* the integer 1; a run whose assertion saw any other fetched value fails
\* with AssertionError.
C5_PassOnlyOnOne ==
  /\ outcome = "pass" =>
       /\ container # "none"
       /\ conn # "none"
       /\ executed = "SELECT 1;"
       /\ row.some
       /\ Len(row.cols) >= 1
       /\ EqualsIntegerOne(row.cols[1])
  /\ ( /\ pc = "done"
       /\ LastBodyStep \in {"assert", "cur_close", "conn_close"}
       /\ row.some
       /\ Len(row.cols) >= 1
       /\ ~EqualsIntegerOne(row.cols[1]) )
     => (outcome = "fail" /\ error = "AssertionError")

\* the row ('1',) was fetched and the run failed on the assertion
C5_Witness ==
  /\ pc = "done"
  /\ row = Row(<<Val("str", 1)>>)
  /\ error = "AssertionError"
  /\ outcome = "fail"

\* C6 as stated: a failing run fails with one of the three kinds of the
\* taxonomy, chosen by the failing step (start, connect, assertion), and
\* with nothing else.
C6_TaxonomyOnly ==
  outcome = "fail" =>
    /\ error \in Taxonomy
    /\ (error = "ContainerStartError") <=> (LastBodyStep = "start")
    /\ (error = "ConnectionError") <=> (LastBodyStep = "connect")
    /\ (error = "AssertionError") <=> (LastBodyStep = "assert")

\* the error each failing statement surfaces
ErrorOfStep(step, r) ==
  CASE step = "start" -> "ContainerStartError"
    [] step = "port" -> "PortLookupError"
    [] step = "connect" -> "ConnectionError"
    [] step = "assert" ->
         IF ~r.some THEN "TypeError"
         ELSE IF Len(r.cols) = 0 THEN "IndexError"
         ELSE "AssertionError"
    [] OTHER -> "DriverError"

\* C6 amended: a failing run fails with exactly one error, chosen by the
\* failing step: ContainerStartError for the start, ConnectionError for
\* connect, AssertionError for a fetched value other than 1, and otherwise
\* the failing call's own error, outside the taxonomy (port lookup, driver
\* error of cursor/execute/fetchone/close, TypeError for no row, IndexError
\* for an empty row).
C6_ErrorByStep ==
  /\ outcome = "fail" => error = ErrorOfStep(LastBodyStep, row)
  /\ outcome = "pass" => error = "none"

\* fetchone returned None and the run failed with TypeError
C6_Witness ==
  /\ pc = "done"
  /\ outcome = "fail"
  /\ LastBodyStep = "assert"
  /\ ~row.some
  /\ error = "TypeError"

\* C7: once a statement of a run has failed, the error stays as it is, no
\* resource of the body is touched, the only statement still entered is
\* the stop of a running container, and the run does not end in success.
C7_NoLocalRecovery ==
  [][ (error # "none" /\ run' = run) =>
        /\ error' = error
        /\ outcome' # "pass"
        /\ (pc' = "done" => outcome' = "fail")
        /\ UNCHANGED <<conn, cur, executed, row>>
        /\ \/ trace' = trace
           \/ trace' = Append(trace, "stop") /\ container = "running"
    ]_vars

\* connect failed: nothing but the stop followed
C7_Witness ==
  /\ pc = "done"
  /\ error = "ConnectionError"
  /\ trace = <<"start", "host", "port", "connect", "stop">>
  /\ cur = "none"
  /\ outcome = "fail"

\* the runs that have ended, the current one included once it is done
EndedRuns ==
  IF pc = "done"
    THEN Append(finished,
                [outcome |-> outcome, error |-> error, resp |-> resp,
                 conn |-> conn, container |-> container])
    ELSE finished

\* C8: two runs that met the same environment ended with the same
\* outcome, a new run starts from nothing, and no run that has ended left
\* a running container or an open connection behind.
C8_RunsIndependent ==
  /\ \A i, j \in DOMAIN EndedRuns :
       EndedRuns[i].resp = EndedRuns[j].resp
         => /\ EndedRuns[i].outcome = EndedRuns[j].outcome
            /\ EndedRuns[i].error = EndedRuns[j].error
  /\ pc = "start" =>
       /\ container = "none"
       /\ conn = "none"
       /\ cur = "none"
       /\ executed = ""
       /\ row = NoRow
       /\ error = "none"
  /\ \A i \in DOMAIN EndedRuns :
       /\ EndedRuns[i].container # "running"
       /\ EndedRuns[i].conn # "open"

\* the steps the flow is made of, in the order it prescribes
ClaimOrder ==
  <<"start", "connect", "cursor", "execute", "fetchone", "assert",
    "cur_close", "conn_close", "stop">>

ClaimSteps == {ClaimOrder[i] : i \in 1..Len(ClaimOrder)}

\* C9: within a run every step is entered after all steps entered before
\* it in the prescribed order (so at most once, never repeated), connect is
\* entered only while the container runs, execute and fetchone only while
\* the connection is open, and a transition enters at most one statement.
C9_LinearSequence ==
  [][ /\ \/ trace' = trace
         \/ trace' = <<>>
         \/ \E s \in ClaimSteps \cup {"host", "port"} :
              trace' = Append(trace, s)
      /\ \A s \in ClaimSteps :
           trace' = Append(trace, s) =>
             /\ \A k \in 1..Len(trace) :
                  trace[k] \in ClaimSteps =>
                    IndexIn(ClaimOrder, trace[k]) < IndexIn(ClaimOrder, s)
             /\ (s = "connect" => container = "running")
             /\ (s \in {"execute", "fetchone"} => conn = "open")
    ]_vars

\* the second run went through all statements
C9_Witness ==
  /\ run = MaxRuns
  /\ pc = "done"
  /\ trace = Flow

====
